---- MODULE Spec2Model ----
(***************************************************************************)
(* A model of run.py: the Iceberg table metrics collector.  main lists the *)
(* namespaces and tables of an S3 Tables warehouse, runs process_table for *)
(* every table on a ThreadPoolExecutor (one executor per namespace), and   *)
(* each process_table queries Spark, prints the metrics and pushes them to *)
(* a Prometheus Pushgateway.                                               *)
(***************************************************************************)
EXTENDS Integers, Sequences, FiniteSets, TLC

\* ------------------------------------------------------------------ bounds

\* largest --max-workers value explored (0 is explored too: argparse accepts it)
MaxWorkers == 2
\* largest number of pages one paginated listing returns
MaxPages == 2
\* largest count(*) the engine returns in the extractor's own specification
MaxPartitions == 2
\* largest number of direct push_metrics_to_prometheus calls in SpecPublish
MaxCalls == 3

\* names the catalog may hold
NsNames == {"ns1", "ns2"}
TableNames == {"t1", "t2"}
Keys == [database : NsNames, table : TableNames]

\* ------------------------------------------------------------ python values

\* A Python value: None, an int, a float (kept as the reduced fraction n/d)
\* or a string that is not a number.
PyNone == [t |-> "none", n |-> 0, d |-> 1]
PyInt(i) == [t |-> "int", n |-> i, d |-> 1]
PyStr == [t |-> "str", n |-> 0, d |-> 1]

RECURSIVE Gcd(_, _)
Gcd(a, b) == IF b = 0 THEN a ELSE Gcd(b, a % b)

\* a / b of two ints, b > 0: Python's true division gives a float
PyFloat(a, b) == [t |-> "float", n |-> a \div Gcd(a, b), d |-> b \div Gcd(a, b)]

\* Python truthiness of a value: None and 0 are false
Truthy(v) == v.t # "none" /\ v.n # 0

\* `v or 0`
OrZero(v) == IF Truthy(v) THEN v ELSE PyInt(0)

\* float(v) raises TypeError for None and ValueError for a non-numeric string
CanFloat(v) == v.t \in {"int", "float"}
ToFloat(v) == [t |-> "float", n |-> v.n, d |-> v.d]

\* ------------------------------------------------------- get_table_metrics

\* The one row the aggregation query returns: count(*) and three sums, each
\* sum possibly NULL.
SumValues == {PyNone} \cup {PyInt(i) : i \in {0, 3}}
AllRows == [partition_count : 0..MaxPartitions, total_files : SumValues,
            total_bytes : SumValues, total_records : SumValues]
\* no row in hand
NoRow == [partition_count |-> -1, total_files |-> PyNone,
          total_bytes |-> PyNone, total_records |-> PyNone]
\* get_table_metrics returned None
NoMetrics == [database |-> "-", table |-> "-", metrics |-> << >>]

\* lines 82-83: total_bytes / partition_count raises TypeError when
\* total_bytes is None and partition_count > 0
AvgRaises(row) == row.partition_count > 0 /\ row.total_bytes.t = "none"
\* `//` in place of `/`: the average rounded down to an int
AvgFloorDiv(row) ==
    IF row.partition_count > 0
    THEN PyInt(row.total_bytes.n \div row.partition_count)
    ELSE PyInt(0)

AvgPartitionSize(row) ==
    IF row.partition_count > 0
    THEN PyFloat(row.total_bytes.n, row.partition_count)
    ELSE PyInt(0)

\* lines 74-88 on the row the query returned: the metrics dict, or None
\* when building it raised
get_table_metrics(row, namespace, table) ==
    IF AvgRaises(row)
    THEN NoMetrics
    ELSE [database |-> namespace,
          table |-> table,
          metrics |-> [partition_count |-> PyInt(row.partition_count),
                       file_count |-> OrZero(row.total_files),
                       total_bytes |-> OrZero(row.total_bytes),
                       total_records |-> OrZero(row.total_records),
                       avg_partition_size |-> AvgPartitionSize(row)]]

\* ----------------------------------------------- push_metrics_to_prometheus

\* lines 97-109: the metric names that have a gauge, and the gauge of each
MetricNames == {"partition_count", "file_count", "total_bytes",
                "total_records", "avg_partition_size"}
GaugeOf(name) ==
    CASE name = "partition_count" -> "iceberg_table_partitions"
      [] name = "file_count" -> "iceberg_table_files"
      [] name = "total_bytes" -> "iceberg_storage_total_bytes"
      [] name = "total_records" -> "iceberg_table_records"
      [] name = "avg_partition_size" -> "iceberg_table_avg_partition_size"

\* a grouping key that leaves the table out
GroupingKeyNoTable(m) == [database |-> m.database, table |-> "t1"]

\* lines 116, 139
GroupingKey(m) == [database |-> m.database, table |-> m.table]

Sample(gauge, labels, value) ==
    [name |-> gauge, database |-> labels.database, table |-> labels.table,
     value |-> value]

\* a coercion loop whose first failure abandons the gauges
RegistryAllOrNothing(m) ==
    {Sample("iceberg_table_info", GroupingKey(m), ToFloat(PyInt(1)))}
    \cup {Sample(GaugeOf(name), GroupingKey(m), ToFloat(m.metrics[name])) :
            name \in {x \in DOMAIN m.metrics \cap MetricNames :
                        \A y \in DOMAIN m.metrics \cap MetricNames :
                           CanFloat(m.metrics[y])}}

\* lines 94-131: the samples of the fresh CollectorRegistry of one call
Registry(m) ==
    {Sample("iceberg_table_info", GroupingKey(m), ToFloat(PyInt(1)))}
    \cup {Sample(GaugeOf(name), GroupingKey(m), ToFloat(m.metrics[name])) :
            name \in {x \in DOMAIN m.metrics \cap MetricNames :
                        CanFloat(m.metrics[x])}}

\* the metric names whose value float() rejects (line 130 logs each)
CoerceErrors(m) ==
    {x \in DOMAIN m.metrics \cap MetricNames : ~CanFloat(m.metrics[x])}

\* The Pushgateway: for each grouping key the samples it holds.
EmptyGroup == {}
EmptyGateway == [k \in Keys |-> EmptyGroup]

\* pushadd_to_gateway (a POST): only the pushed names are replaced
pushadd_to_gateway(gw, key, registry) ==
    [gw EXCEPT ![key] =
        registry \cup {s \in @ : \A r \in registry : r.name # s.name}]

\* lines 135-140: push_to_gateway is a PUT, which replaces the whole group
push_to_gateway(gw, key, registry) == [gw EXCEPT ![key] = registry]

\* ------------------------------------------------------------------ state

VARIABLES
    max_workers,   \* args.max_workers
    pc,            \* where main is
    spark,         \* main's `spark`: "None", "active" or "stopped"
    lister,        \* the running list_namespaces / list_tables call
    namespaces,    \* main's `namespaces`
    nsIdx,         \* position of the `for namespace in namespaces` loop
    tables,        \* main's `tables` for the current namespace
    futures,       \* the work items of the current ThreadPoolExecutor
    collected,     \* the futures as_completed has yielded to main
    gateway,       \* the Pushgateway: grouping key -> samples
    stdout,        \* what print() wrote, per (database, table)
    log,           \* the logger.error / logger.info lines written
    submitted,     \* history: work items queued, per (database, table)
    queries,       \* history: spark.sql calls, per (database, table)
    pushCount,     \* history: push_to_gateway calls, per (database, table)
    retrieved,     \* history: future.result() calls, per (database, table)
    emptyNs,       \* history: namespaces whose table listing came back empty
    listed,        \* history: the (database, table) list_tables gave main
    exit_status,   \* the interpreter's exit status: << >> until it exits
    nCreate,       \* history: sessions created
    nStop          \* history: spark.stop() calls

vars == <<max_workers, pc, spark, lister, namespaces, nsIdx, tables, futures,
          collected, gateway, stdout, log, submitted, queries, pushCount,
          retrieved, emptyNs, listed, exit_status, nCreate, nStop>>

sessVars == <<spark, nCreate, nStop, exit_status>>
listVars == <<lister, namespaces, nsIdx, tables, emptyNs, listed, listed>>
poolVars == <<futures, collected, submitted, retrieved>>
outVars == <<gateway, stdout, pushCount, queries>>
mainVars == <<pc, sessVars, listVars, collected, submitted, retrieved>>

\* lines 249-250: main() returns None on every path, since it catches every
\* Exception (lines 241-242) and never calls sys.exit: the interpreter
\* exits with status 0
ExitSuccess == 0

\* a log line; main's own lines carry no table
LogLine(kind, db, tb) == [kind |-> kind, database |-> db, table |-> tb]
MainLine(kind) == LogLine(kind, "-", "-")

\* A lister call: acc is its result list so far, page the pages read, raw
\* the 'namespace' values list_namespaces read and ns the namespace
\* list_tables asks the catalog for.  page is -1 when no call is running.
NewLister == [acc |-> << >>, page |-> 0, raw |-> << >>, ns |-> "-"]
NoLister == [acc |-> << >>, page |-> -1, raw |-> << >>, ns |-> "-"]

ZeroCount == [k \in Keys |-> 0]

\* sequences without repetition over S
NoDupSeqs(S) ==
    {s \in UNION {[1..n -> S] : n \in 0..Cardinality(S)} :
        \A i, j \in DOMAIN s : i # j => s[i] # s[j]}

Range(s) == {s[i] : i \in DOMAIN s}

\* ------------------------------------------------------------ the catalog

\* A namespace descriptor of a list_namespaces page: its 'namespace' value
\* is a string or a list of strings.
NsStr(s) == [list |-> FALSE, str |-> s, parts |-> << >>]
NsList(p) == [list |-> TRUE, str |-> "", parts |-> p]
\* the forms the name s comes in: "s", ["s"], and a key of several
\* components whose first is s
Descriptors(s) == {NsStr(s), NsList(<<s>>), NsList(<<s, "sub">>)}

\* a normalisation that takes the last component of a list
FlattenLast(d) == IF d.list THEN d.parts[Len(d.parts)] ELSE d.str

\* lines 173-175, and line 187 in list_tables
Flatten(d) == IF d.list THEN d.parts[1] ELSE d.str

\* the names of one page, in page order
FlattenAll(page) == [i \in DOMAIN page |-> Flatten(page[i])]

\* The pages the catalog can answer with next: names are unique in the
\* catalog, so a page never repeats a name already listed.
NsPages(acc) ==
    UNION {{[i \in DOMAIN names |-> ds[i]] :
              ds \in {f \in [DOMAIN names -> UNION {Descriptors(s) : s \in NsNames}] :
                        \A i \in DOMAIN names : f[i] \in Descriptors(names[i])}} :
           names \in NoDupSeqs(NsNames \ Range(acc))}
TablePages(acc) == NoDupSeqs(TableNames \ Range(acc))

\* ------------------------------------------------------------------- tasks

\* One work item of the executor: process_table(spark, namespace, table, gw).
\* st: "pending" (queued), "query" (in get_table_metrics), "print" (metrics
\* in hand, before print), "push" (before push_metrics_to_prometheus),
\* "finished"; between "query" and "print", "row" (the query returned its
\* row).  result is the value process_table returned.
Task(ns, tb) == [database |-> ns, table |-> tb, st |-> "pending",
                 row |-> NoRow, metrics |-> NoMetrics, result |-> "None"]

Running(f) == f.st \in {"query", "row", "print", "push"}
NumRunning == Cardinality({i \in DOMAIN futures : Running(futures[i])})
AllFinished == \A i \in DOMAIN futures : futures[i].st = "finished"

namespace == namespaces[nsIdx]
KeyOf(i) == [database |-> futures[i].database, table |-> futures[i].table]

Init ==
    /\ max_workers \in 0..MaxWorkers
    /\ pc = "create_spark_session"
    /\ spark = "None"
    /\ lister = NoLister
    /\ namespaces = << >>
    /\ nsIdx = 0
    /\ tables = << >>
    /\ futures = << >>
    /\ collected = {}
    /\ gateway = EmptyGateway
    /\ stdout = [k \in Keys |-> << >>]
    /\ log = {}
    /\ submitted = ZeroCount
    /\ queries = ZeroCount
    /\ pushCount = ZeroCount
    /\ retrieved = ZeroCount
    /\ emptyNs = {}
    /\ listed = {}
    /\ exit_status = << >>
    /\ nCreate = 0
    /\ nStop = 0

\* ------------------------------------------------------- main: start-up

\* lines 207-210: create_spark_session returns a session or raises
CreateSession(ok) ==
    /\ pc = "create_spark_session"
    /\ IF ok
       THEN /\ spark' = "active"
            /\ nCreate' = nCreate + 1
            /\ pc' = "get_s3tables_client"
            /\ log' = log
       ELSE /\ pc' = "finally"
            /\ log' = log \cup {MainLine("main_error")}
            /\ UNCHANGED <<spark, nCreate>>
    /\ UNCHANGED <<max_workers, nStop, exit_status, listVars, poolVars,
                   outVars>>

\* lines 211-214: setLogLevel and get_s3tables_client return or raise
InitClient(ok) ==
    /\ pc = "get_s3tables_client"
    /\ IF ok
       THEN /\ pc' = "list_namespaces"
            /\ lister' = NewLister
            /\ log' = log \cup {MainLine("initialized")}
       ELSE /\ pc' = "finally"
            /\ log' = log \cup {MainLine("main_error")}
            /\ UNCHANGED lister
    /\ UNCHANGED <<max_workers, sessVars, namespaces, nsIdx, tables, emptyNs, listed,
                   poolVars, outVars>>

\* ------------------------------------------------------------ the listers

\* an except branch that returns what the pages read so far gave
ReturnPartial(acc) == acc

\* lines 178-180 and 195-197: the except branch returns []
ReturnOnError(acc) == << >>

\* lines 170-177: one page of list_namespaces; after the last page it
\* returns what it gathered and main enters its loop (lines 217-220)
ListNamespacesPage(page, more) ==
    /\ pc = "list_namespaces"
    /\ more => lister.page + 1 < MaxPages
    /\ LET acc == lister.acc \o FlattenAll(page) IN
       IF more
       THEN /\ lister' = [lister EXCEPT !.acc = acc, !.page = @ + 1,
                                      !.raw = @ \o page]
            /\ UNCHANGED <<pc, namespaces, nsIdx>>
       ELSE /\ lister' = [NoLister EXCEPT !.raw = lister.raw \o page]
            /\ namespaces' = acc
            /\ nsIdx' = 1
            /\ pc' = "for_namespace"
    /\ UNCHANGED <<max_workers, sessVars, tables, emptyNs, listed, poolVars, outVars,
                   log>>

\* lines 170, 178-180: fetching a page raised
ListNamespacesError ==
    /\ pc = "list_namespaces"
    /\ lister' = NoLister
    /\ namespaces' = ReturnOnError(lister.acc)
    /\ nsIdx' = 1
    /\ pc' = "for_namespace"
    /\ log' = log \cup {MainLine("list_namespaces_error")}
    /\ UNCHANGED <<max_workers, sessVars, tables, emptyNs, listed, poolVars, outVars>>

\* line 220: the next namespace, or the end of the loop
ForNamespace ==
    /\ pc = "for_namespace"
    /\ IF nsIdx <= Len(namespaces)
       THEN /\ pc' = "list_tables"
            /\ lister' = [NewLister EXCEPT !.ns = Flatten(NsStr(namespace))]
       ELSE /\ pc' = "finally"
            /\ UNCHANGED lister
    /\ UNCHANGED <<max_workers, sessVars, namespaces, nsIdx, tables, emptyNs, listed,
                   poolVars, outVars, log>>

\* line 223: list_tables returned tbls to main
TablesListed(tbls) ==
    /\ lister' = NoLister
    /\ tables' = tbls
    /\ emptyNs' = IF tbls = << >> THEN emptyNs \cup {namespace} ELSE emptyNs
    /\ listed' = listed \cup {[database |-> namespace, table |-> tbls[j]] :
                                j \in DOMAIN tbls}
    /\ pc' = "if_not_tables"

\* lines 191-194: one page of list_tables
ListTablesPage(page, more) ==
    /\ pc = "list_tables"
    /\ more => lister.page + 1 < MaxPages
    /\ LET acc == lister.acc \o page IN
       IF more
       THEN /\ lister' = [lister EXCEPT !.acc = acc, !.page = @ + 1]
            /\ UNCHANGED <<pc, tables, emptyNs, listed>>
       ELSE TablesListed(acc)
    /\ UNCHANGED <<max_workers, sessVars, namespaces, nsIdx, poolVars, outVars,
                   log>>

\* lines 191, 195-197: fetching a page raised
ListTablesError ==
    /\ pc = "list_tables"
    /\ TablesListed(ReturnOnError(lister.acc))
    /\ log' = log \cup {LogLine("list_tables_error", lister.ns, "-")}
    /\ UNCHANGED <<max_workers, sessVars, namespaces, nsIdx, poolVars, outVars>>

\* ------------------------------------------------------- main: the pool

\* no `continue` for an empty listing
SkipNever(tbls) == FALSE

\* line 226
SkipNamespace(tbls) == tbls = << >>

\* lines 226-230: skip an empty namespace, else open the executor, whose
\* constructor raises ValueError for max_workers <= 0
CheckTables ==
    /\ pc = "if_not_tables"
    /\ IF SkipNamespace(tables)
       THEN /\ nsIdx' = nsIdx + 1
            /\ pc' = "for_namespace"
            /\ UNCHANGED log
       ELSE IF max_workers <= 0
       THEN /\ pc' = "finally"
            /\ log' = log \cup {MainLine("main_error")}
            /\ UNCHANGED nsIdx
       ELSE /\ pc' = "submit"
            /\ UNCHANGED <<nsIdx, log>>
    /\ UNCHANGED <<max_workers, sessVars, lister, namespaces, tables, emptyNs, listed,
                   poolVars, outVars>>

\* lines 231-234: executor.submit queues one work item per table
Submit ==
    /\ pc = "submit"
    /\ Len(futures) < Len(tables)
    /\ LET tb == tables[Len(futures) + 1]
           key == [database |-> namespace, table |-> tb] IN
       /\ futures' = Append(futures, Task(namespace, tb))
       /\ submitted' = [submitted EXCEPT ![key] = @ + 1]
    /\ pc' = IF Len(futures) + 1 = Len(tables) THEN "as_completed" ELSE "submit"
    /\ UNCHANGED <<max_workers, sessVars, listVars, collected, retrieved,
                   outVars, log>>

\* line 232: executor.submit raised (the pool could not start a thread).
\* The work item was put on the queue before the thread was started: it is
\* run if the pool already has a worker, and never run otherwise.  main
\* leaves the `with` block, whose exit waits for the workers.
SubmitRaises(queued) ==
    /\ pc = "submit"
    /\ Len(futures) < Len(tables)
    /\ queued => Len(futures) > 0
    /\ LET tb == tables[Len(futures) + 1]
           key == [database |-> namespace, table |-> tb] IN
       IF queued
       THEN /\ futures' = Append(futures, Task(namespace, tb))
            /\ submitted' = [submitted EXCEPT ![key] = @ + 1]
       ELSE UNCHANGED <<futures, submitted>>
    /\ pc' = "shutdown"
    /\ UNCHANGED <<max_workers, sessVars, listVars, collected, retrieved,
                   outVars, log>>

\* lines 235-239: as_completed yields a finished future and main takes its
\* result, which it does not keep
Collect(i) ==
    /\ pc = "as_completed"
    /\ i \in DOMAIN futures
    /\ i \notin collected
    /\ futures[i].st = "finished"
    /\ collected' = collected \cup {i}
    /\ retrieved' = [retrieved EXCEPT ![KeyOf(i)] = @ + 1]
    /\ UNCHANGED <<max_workers, pc, sessVars, listVars, futures, submitted,
                   outVars, log>>

\* shutdown(wait=False): the exit does not wait
ShutdownNoWait == TRUE

\* the executor's __exit__ is shutdown(wait=True): it returns when every
\* queued work item has run
ShutdownReturns == AllFinished

\* the work items the executor leaves behind when main moves on
LeftBehind(fs) == SelectSeq(fs, LAMBDA f : f.st # "finished")

\* a collection loop that stops at the first future yielded
ExitPoolEarly ==
    /\ pc = "as_completed"
    /\ collected # {}
    /\ ShutdownReturns
    /\ futures' = LeftBehind(futures)
    /\ collected' = {}
    /\ nsIdx' = nsIdx + 1
    /\ pc' = "for_namespace"
    /\ UNCHANGED <<max_workers, sessVars, lister, namespaces, tables, emptyNs, listed,
                   submitted, retrieved, outVars, log>>

\* an executor kept open across namespaces: main moves on to the next
\* namespace as soon as the tables of this one are queued
ExitPoolNoWait ==
    /\ pc = "as_completed"
    /\ futures' = LeftBehind(futures)
    /\ collected' = {}
    /\ nsIdx' = nsIdx + 1
    /\ pc' = "for_namespace"
    /\ UNCHANGED <<max_workers, sessVars, lister, namespaces, tables, emptyNs,
                   listed, submitted, retrieved, outVars, log>>

\* line 230: the end of the `with` block after every future was yielded
ExitPool ==
    /\ pc = "as_completed"
    /\ collected = DOMAIN futures
    /\ ShutdownReturns
    /\ futures' = LeftBehind(futures)
    /\ collected' = {}
    /\ nsIdx' = nsIdx + 1
    /\ pc' = "for_namespace"
    /\ UNCHANGED <<max_workers, sessVars, lister, namespaces, tables, emptyNs, listed,
                   submitted, retrieved, outVars, log>>

\* lines 230, 241-242: the `with` block left by an exception
AbortPool ==
    /\ pc = "shutdown"
    /\ ShutdownReturns
    /\ futures' = LeftBehind(futures)
    /\ collected' = {}
    /\ pc' = "finally"
    /\ log' = log \cup {MainLine("main_error")}
    /\ UNCHANGED <<max_workers, sessVars, listVars, submitted, retrieved,
                   outVars>>

\* a finally block that stops without looking at `spark`
SessionHeldAlways(s) == TRUE

\* line 244
SessionHeld(s) == s = "active"

\* lines 243-246
Finally ==
    /\ pc = "finally"
    /\ IF SessionHeld(spark)
       THEN /\ spark' = "stopped"
            /\ nStop' = nStop + 1
            /\ log' = log \cup {MainLine("stopped")}
       ELSE UNCHANGED <<spark, nStop, log>>
    /\ pc' = "done"
    /\ exit_status' = <<ExitSuccess>>
    /\ UNCHANGED <<max_workers, nCreate, listVars, poolVars, outVars>>

\* ------------------------------------------------------- process_table

\* What the engine answers in a whole run: no partitions (every sum NULL),
\* a populated table, or a table whose byte sum is NULL.
EngineRows ==
    {[partition_count |-> 0, total_files |-> PyNone, total_bytes |-> PyNone,
      total_records |-> PyNone],
     [partition_count |-> 2, total_files |-> PyInt(3), total_bytes |-> PyInt(3),
      total_records |-> PyInt(3)],
     [partition_count |-> 1, total_files |-> PyInt(3), total_bytes |-> PyNone,
      total_records |-> PyInt(3)]}

\* a pool that starts a thread for every work item
WorkerAlwaysFree == TRUE

\* a pool that keeps one of its threads back
WorkerKeptBack == NumRunning < max_workers - 1

\* line 230: a pool of max_workers threads runs at most that many items
WorkerFree == NumRunning < max_workers

\* a worker thread takes the oldest queued work item (the queue is FIFO)
StartTask(i) ==
    /\ i \in DOMAIN futures
    /\ futures[i].st = "pending"
    /\ \A j \in 1..(i - 1) : futures[j].st # "pending"
    /\ WorkerFree
    /\ futures' = [futures EXCEPT ![i].st = "query"]
    /\ UNCHANGED <<max_workers, mainVars, log, outVars>>

\* a failed extraction that also cancels the work items still queued
ExtractionFailedCancels(i) ==
    /\ futures' = [j \in DOMAIN futures |->
                     IF j = i \/ futures[j].st = "pending"
                     THEN [futures[j] EXCEPT !.st = "finished", !.row = NoRow,
                                             !.result = "False"]
                     ELSE futures[j]]
    /\ log' = log \cup {LogLine("extract_error", futures[i].database,
                                futures[i].table)}

\* lines 86-88, 155, 159: get_table_metrics logs and returns None, and
\* process_table returns False
ExtractionFailed(i) ==
    /\ futures' = [futures EXCEPT ![i].st = "finished", ![i].row = NoRow,
                                  ![i].result = "False"]
    /\ log' = log \cup {LogLine("extract_error", futures[i].database,
                                futures[i].table)}

\* line 72: spark.sql(query).collect()[0] returned the row
QueryReturns(i, row) ==
    /\ i \in DOMAIN futures
    /\ futures[i].st = "query"
    /\ queries' = [queries EXCEPT ![KeyOf(i)] = @ + 1]
    /\ futures' = [futures EXCEPT ![i].st = "row", ![i].row = row]
    /\ UNCHANGED <<max_workers, mainVars, log, gateway, stdout, pushCount>>

\* line 72: the query raised
QueryRaises(i) ==
    /\ i \in DOMAIN futures
    /\ futures[i].st = "query"
    /\ queries' = [queries EXCEPT ![KeyOf(i)] = @ + 1]
    /\ ExtractionFailed(i)
    /\ UNCHANGED <<max_workers, mainVars, gateway, stdout, pushCount>>

\* lines 74-88, 154-155: the metrics dict is built from the row and handed
\* to process_table
Normalize(i) ==
    /\ i \in DOMAIN futures
    /\ futures[i].st = "row"
    /\ LET m == get_table_metrics(futures[i].row, futures[i].database,
                                  futures[i].table) IN
       IF m = NoMetrics
       THEN ExtractionFailed(i)
       ELSE /\ futures' = [futures EXCEPT ![i].st = "print", ![i].row = NoRow,
                                          ![i].metrics = m]
            /\ log' = log
    /\ UNCHANGED <<max_workers, mainVars, outVars>>

\* a process_table that does not print before it pushes
EmitSkipped(i) ==
    /\ i \in DOMAIN futures
    /\ futures[i].st = "print"
    /\ futures' = [futures EXCEPT ![i].st = "push"]
    /\ UNCHANGED <<max_workers, mainVars, log, outVars>>

\* line 156: print(json.dumps(metrics))
Emit(i) ==
    /\ i \in DOMAIN futures
    /\ futures[i].st = "print"
    /\ stdout' = [stdout EXCEPT ![GroupingKey(futures[i].metrics)] =
                                    Append(@, futures[i].metrics)]
    /\ futures' = [futures EXCEPT ![i].st = "push"]
    /\ UNCHANGED <<max_workers, mainVars, log, gateway, pushCount, queries>>

\* How a push_to_gateway call ends: "ok"; "refused" (it raised and the
\* gateway holds nothing new); "lost" (it raised after the gateway took the
\* request, as on a read timeout).
PushOutcomes == {"ok", "refused", "lost"}
\* the outcomes explored in a whole run
RunOutcomes == {"ok", "refused"}

\* a registry shared by the calls (the default REGISTRY): a push carries
\* the series every earlier call registered as well
GatewayAfterShared(gw, m, outcome) ==
    IF outcome \in {"ok", "lost"}
    THEN push_to_gateway(gw, GroupingKey(m),
                         Registry(m) \cup UNION {gw[k] : k \in Keys})
    ELSE gw

\* lines 93-148: what one push_metrics_to_prometheus call leaves in the
\* gateway
GatewayAfter(gw, m, outcome) ==
    IF outcome \in {"ok", "lost"}
    THEN push_to_gateway(gw, GroupingKey(m), Registry(m))
    ELSE gw

\* lines 122-148: the lines one call logs
PushLog(m, outcome) ==
    {LogLine("coerce_error", m.database, m.table) : x \in CoerceErrors(m)}
    \cup (IF outcome = "ok"
          THEN {LogLine("pushed", m.database, m.table)}
          ELSE {LogLine("push_failed", m.database, m.table),
                LogLine("push_error", m.database, m.table)})

\* a publisher that logs a push error and returns instead of raising
ResultAlwaysTrue(outcome) == "True"

\* lines 157-162: process_table returns True after a push that did not
\* raise, and False (logging line 161) when it raised
ResultOfPush(outcome) == IF outcome = "ok" THEN "True" ELSE "False"

Push(i, outcome) ==
    /\ i \in DOMAIN futures
    /\ futures[i].st = "push"
    /\ LET m == futures[i].metrics IN
       /\ gateway' = GatewayAfter(gateway, m, outcome)
       /\ pushCount' = [pushCount EXCEPT ![GroupingKey(m)] = @ + 1]
       /\ log' = log \cup PushLog(m, outcome)
                     \cup (IF ResultOfPush(outcome) = "False"
                           THEN {LogLine("process_error", m.database, m.table)}
                           ELSE {})
    /\ futures' = [futures EXCEPT ![i].st = "finished",
                                  ![i].metrics = NoMetrics,
                                  ![i].result = ResultOfPush(outcome)]
    /\ UNCHANGED <<max_workers, mainVars, stdout, queries>>

\* ------------------------------------------------------ the specification

Next ==
    \/ \E ok \in BOOLEAN : CreateSession(ok)
    \/ \E ok \in BOOLEAN : InitClient(ok)
    \/ \E more \in BOOLEAN : \E page \in NsPages(lister.acc) :
          ListNamespacesPage(page, more)
    \/ ListNamespacesError
    \/ ForNamespace
    \/ \E more \in BOOLEAN : \E page \in TablePages(lister.acc) :
          ListTablesPage(page, more)
    \/ ListTablesError
    \/ CheckTables
    \/ Submit
    \/ \E queued \in BOOLEAN : SubmitRaises(queued)
    \/ \E i \in DOMAIN futures : StartTask(i)
    \/ \E i \in DOMAIN futures : \E row \in EngineRows : QueryReturns(i, row)
    \/ \E i \in DOMAIN futures : QueryRaises(i)
    \/ \E i \in DOMAIN futures : Normalize(i)
    \/ \E i \in DOMAIN futures : Emit(i)
    \/ \E i \in DOMAIN futures : \E outcome \in RunOutcomes : Push(i, outcome)
    \/ \E i \in DOMAIN futures : Collect(i)
    \/ ExitPool
    \/ AbortPool
    \/ Finally

Spec == Init /\ [][Next]_vars

TypeOK ==
    /\ max_workers \in 0..MaxWorkers
    /\ spark \in {"None", "active", "stopped"}
    /\ Range(namespaces) \subseteq NsNames
    /\ Range(tables) \subseteq TableNames
    /\ collected \subseteq DOMAIN futures
    /\ \A i \in DOMAIN futures :
          futures[i].st \in {"pending", "query", "row", "print", "push",
                             "finished"}

\* ------------------------------------- process_table on one table alone

\* A pool holding the one work item process_table(spark, "ns1", "t1", gw),
\* its query about to be answered with any row of AllRows.
OneKey == [database |-> "ns1", table |-> "t1"]

InitTable ==
    /\ max_workers = 1
    /\ pc = "as_completed"
    /\ spark = "active"
    /\ lister = NoLister
    /\ namespaces = <<"ns1">>
    /\ nsIdx = 1
    /\ tables = <<"t1">>
    /\ futures = <<[Task("ns1", "t1") EXCEPT !.st = "query"]>>
    /\ collected = {}
    /\ gateway = EmptyGateway
    /\ stdout = [k \in Keys |-> << >>]
    /\ log = {}
    /\ submitted = [ZeroCount EXCEPT ![OneKey] = 1]
    /\ queries = ZeroCount
    /\ pushCount = ZeroCount
    /\ retrieved = ZeroCount
    /\ emptyNs = {}
    /\ listed = {OneKey}
    /\ exit_status = << >>
    /\ nCreate = 1
    /\ nStop = 0

NextTable ==
    \/ \E row \in AllRows : QueryReturns(1, row)
    \/ QueryRaises(1)
    \/ Normalize(1)
    \/ Emit(1)
    \/ \E outcome \in PushOutcomes : Push(1, outcome)

SpecTable == InitTable /\ [][NextTable]_vars

\* --------------------------- push_metrics_to_prometheus called repeatedly

\* The metrics dicts handed to push_metrics_to_prometheus: the dict of a
\* populated table, one whose total_bytes is None, one whose
\* avg_partition_size is a string, and one with an unknown name only.
PubValues ==
    {[partition_count |-> PyInt(2), file_count |-> PyInt(3),
      total_bytes |-> PyInt(3), total_records |-> PyInt(3),
      avg_partition_size |-> PyFloat(3, 2)],
     [partition_count |-> PyInt(2), file_count |-> PyInt(3),
      total_bytes |-> PyNone, total_records |-> PyInt(3),
      avg_partition_size |-> PyFloat(3, 2)],
     [partition_count |-> PyInt(1), file_count |-> PyInt(0),
      total_bytes |-> PyInt(0), total_records |-> PyInt(0),
      avg_partition_size |-> PyStr],
     [schema_version |-> PyInt(1)]}
PubKeys == {k \in Keys : k.database = "ns1"}
PubMetrics == {[database |-> k.database, table |-> k.table, metrics |-> v] :
                 k \in PubKeys, v \in PubValues}

RECURSIVE SumOver(_, _)
SumOver(f, S) ==
    IF S = {} THEN 0
    ELSE LET k == CHOOSE x \in S : TRUE IN f[k] + SumOver(f, S \ {k})

\* line 157: a caller hands a metrics dict to push_metrics_to_prometheus
CallPublish(m) ==
    /\ SumOver(pushCount, Keys) < MaxCalls
    /\ AllFinished
    /\ futures' = <<[Task(m.database, m.table) EXCEPT !.st = "push",
                                                      !.metrics = m]>>
    /\ UNCHANGED <<max_workers, mainVars, log, outVars>>

InitPublish ==
    /\ max_workers = 1
    /\ pc = "as_completed"
    /\ spark = "active"
    /\ lister = NoLister
    /\ namespaces = <<"ns1">>
    /\ nsIdx = 1
    /\ tables = <<"t1">>
    /\ futures = << >>
    /\ collected = {}
    /\ gateway = EmptyGateway
    /\ stdout = [k \in Keys |-> << >>]
    /\ log = {}
    /\ submitted = ZeroCount
    /\ queries = ZeroCount
    /\ pushCount = ZeroCount
    /\ retrieved = ZeroCount
    /\ emptyNs = {}
    /\ listed = {OneKey}
    /\ exit_status = << >>
    /\ nCreate = 1
    /\ nStop = 0

NextPublish ==
    \/ \E m \in PubMetrics : CallPublish(m)
    \/ \E outcome \in PushOutcomes : Push(1, outcome)

SpecPublish == InitPublish /\ [][NextPublish]_vars

\* ------------------------------------------------------------ the claims

Dispatched(k) == submitted[k] > 0
Pushed(k) == LogLine("pushed", k.database, k.table) \in log
ExtractFailed(k) == LogLine("extract_error", k.database, k.table) \in log
PushFailed(k) == LogLine("push_failed", k.database, k.table) \in log
InPool == futures # << >> \/ pc \in {"submit", "as_completed", "shutdown"}
Aborted == MainLine("main_error") \in log

\* C1: failure isolation.  A finished task's result is decided by its own
\* extraction and push alone: True exactly when its own push went through
\* (and then the gateway holds its group), False exactly when its own
\* extraction or push failed; and once main has left the pool every
\* dispatched table has completed with exactly one of the two results,
\* whatever its siblings did.
C1_FailureIsolation ==
    /\ \A i \in DOMAIN futures :
          futures[i].st = "finished" =>
             /\ (futures[i].result = "True") = Pushed(KeyOf(i))
             /\ (futures[i].result = "False") =
                   (ExtractFailed(KeyOf(i)) \/ PushFailed(KeyOf(i)))
             /\ Pushed(KeyOf(i)) => gateway[KeyOf(i)] # EmptyGroup
    /\ ~InPool =>
          \A k \in Keys :
             Dispatched(k) =>
                /\ Pushed(k) \/ ExtractFailed(k) \/ PushFailed(k)
                /\ ~(Pushed(k) /\ (ExtractFailed(k) \/ PushFailed(k)))
                /\ Pushed(k) => gateway[k] # EmptyGroup

\* a finished run in which t1 of ns1 failed to extract, t2 failed to push
\* in another namespace, and their siblings were pushed
C1_Witness ==
    /\ pc = "done"
    /\ ExtractFailed([database |-> "ns1", table |-> "t1"])
    /\ Pushed([database |-> "ns1", table |-> "t2"])
    /\ PushFailed([database |-> "ns2", table |-> "t2"])
    /\ Pushed([database |-> "ns2", table |-> "t1"])

Attempted == Cardinality({k \in Keys : Dispatched(k)})
Succeeded == Cardinality({k \in Keys : Dispatched(k) /\ Pushed(k)})
Failed ==
    Cardinality({k \in Keys : Dispatched(k) /\ (ExtractFailed(k) \/ PushFailed(k))})

HasNullSum(row) ==
    row.total_files = PyNone \/ row.total_bytes = PyNone \/ row.total_records = PyNone

\* C4: whenever the row the engine returned has a NULL sum, whatever its
\* partition_count, get_table_metrics returns a metrics dict (extraction
\* does not fail) in which each NULL sum reads 0.
C4_NullSumsBecomeZero ==
    [][\A i \in DOMAIN futures :
          (futures[i].st = "row" /\ HasNullSum(futures[i].row)
             /\ futures'[i] # futures[i]) =>
             /\ futures'[i].st = "print"
             /\ futures[i].row.total_files = PyNone =>
                   futures'[i].metrics.metrics.file_count = PyInt(0)
             /\ futures[i].row.total_bytes = PyNone =>
                   futures'[i].metrics.metrics.total_bytes = PyInt(0)
             /\ futures[i].row.total_records = PyNone =>
                   futures'[i].metrics.metrics.total_records = PyInt(0)]_vars

\* C5: a push replaces its group and touches no other.  Every step that
\* ends a push_metrics_to_prometheus call leaves every other grouping
\* key's group as it was, and leaves the call's own group holding exactly
\* the samples of this call when the call returned (and either those or
\* the old group when it raised), whatever the group held before.
C5_ReplacePerKey ==
    [][\A i \in DOMAIN futures :
          (futures[i].st = "push" /\ futures'[i].st = "finished") =>
             LET m == futures[i].metrics
                 k == GroupingKey(m) IN
             /\ \A k2 \in Keys \ {k} : gateway'[k2] = gateway[k2]
             /\ futures'[i].result = "True" => gateway'[k] = Registry(m)
             /\ gateway'[k] \in {gateway[k], Registry(m)}]_vars

\* (ns1, t1) was pushed twice, the dict with the unknown name last: its
\* group holds the table-info sample alone, and the group of (ns1, t2),
\* pushed once, is still there
C5_Witness ==
    /\ pushCount[OneKey] = 2
    /\ LogLine("coerce_error", "ns1", "t1") \in log
    /\ Pushed(OneKey)
    /\ Cardinality(gateway[OneKey]) = 1
    /\ pushCount[[database |-> "ns1", table |-> "t2"]] = 1
    /\ Cardinality(gateway[[database |-> "ns1", table |-> "t2"]]) = 6

\* C6: the metrics are printed once, before the push.  A task about to
\* push has printed its own metrics exactly once and has not pushed; no
\* table is printed twice or pushed without having been printed; a table
\* whose push failed was printed, has no extraction failure logged and
\* ends False; and once main has left the pool every dispatched table whose
\* extraction succeeded has been printed exactly once.
C6_EmitBeforePush ==
    /\ \A k \in Keys :
          /\ Len(stdout[k]) <= 1
          /\ pushCount[k] <= Len(stdout[k])
          /\ \A j \in DOMAIN stdout[k] : GroupingKey(stdout[k][j]) = k
          /\ PushFailed(k) =>
                Len(stdout[k]) = 1 /\ ~ExtractFailed(k) /\ ~Pushed(k)
          /\ (~InPool /\ Dispatched(k) /\ ~ExtractFailed(k)) => Len(stdout[k]) = 1
    /\ \A i \in DOMAIN futures :
          /\ futures[i].st = "push" =>
                stdout[KeyOf(i)] = <<futures[i].metrics>> /\ pushCount[KeyOf(i)] = 0
          /\ futures[i].st \in {"pending", "query", "row", "print"} =>
                stdout[KeyOf(i)] = << >>
          /\ (futures[i].st = "finished" /\ PushFailed(KeyOf(i))) =>
                futures[i].result = "False"

\* scenario 3: the push of (ns1, t1) failed after its metrics were printed
C6_Witness ==
    /\ PushFailed(OneKey)
    /\ Len(stdout[OneKey]) = 1
    /\ pushCount[OneKey] = 1
    /\ ~ExtractFailed(OneKey)
    /\ \E i \in DOMAIN futures :
          KeyOf(i) = OneKey /\ futures[i].st = "finished" /\ futures[i].result = "False"

\* C7: a namespace whose listing is empty is skipped.  main is never in the
\* pool with an empty table list; for a namespace whose listing came back
\* empty nothing was submitted, queried or pushed; the loop has moved (or
\* is about to move) past it; and a run that was not aborted ends with the
\* loop past every namespace.
C7_EmptyNamespaceSkipped ==
    /\ pc \in {"submit", "as_completed", "shutdown"} =>
          tables # << >> /\ namespace \notin emptyNs
    /\ \A k \in Keys :
          k.database \in emptyNs =>
             /\ submitted[k] = 0
             /\ queries[k] = 0
             /\ pushCount[k] = 0
             /\ gateway[k] = EmptyGroup
    /\ \A ns \in emptyNs :
          \E j \in DOMAIN namespaces :
             /\ namespaces[j] = ns
             /\ j < nsIdx \/ (j = nsIdx /\ pc = "if_not_tables")
    /\ (pc = "done" /\ ~Aborted) => nsIdx = Len(namespaces) + 1

\* ns1 had no tables (and no listing error), and the run went on to push
\* a table of ns2 and ended
C7_Witness ==
    /\ pc = "done"
    /\ ~Aborted
    /\ namespaces = <<"ns1", "ns2">>
    /\ emptyNs = {"ns1"}
    /\ LogLine("list_tables_error", "ns1", "-") \notin log
    /\ Pushed([database |-> "ns2", table |-> "t1"])

\* C8: the session is stopped after the tasks.  Whenever a work item is
\* queued or executing the session is active (not yet stopped); main
\* reaches its finally block with no work item left; and once the session
\* is stopped every dispatched table has logged its outcome.
C8_StopAfterTasks ==
    /\ \A i \in DOMAIN futures : futures[i].st # "finished" => spark = "active"
    /\ pc \in {"finally", "done"} => futures = << >>
    /\ spark = "stopped" =>
          /\ futures = << >>
          /\ \A k \in Keys :
                Dispatched(k) => Pushed(k) \/ ExtractFailed(k) \/ PushFailed(k)

\* a run aborted inside the pool (a submit raised after a table had been
\* dispatched, so no result was taken) whose session was then stopped
C8_Witness ==
    /\ pc = "done"
    /\ spark = "stopped"
    /\ Aborted
    /\ Pushed(OneKey)
    /\ retrieved = ZeroCount

\* C9: the session lifecycle.  At most one session is created; stop is
\* called only at the end of the run, never more often than a session was
\* created, never when none was; and a finished run has stopped the session
\* it created.
C9_SessionLifecycle ==
    /\ nCreate <= 1
    /\ nStop <= nCreate
    /\ nCreate = 0 => spark = "None" /\ nStop = 0
    /\ pc # "done" => nStop = 0
    /\ pc = "done" => nStop = nCreate
    /\ (spark = "stopped") = (nStop = 1)

\* a run whose session was created, that hit an error before any table was
\* dispatched (with a usable worker count), and that stopped the session
C9_Witness ==
    /\ pc = "done"
    /\ max_workers >= 1
    /\ Aborted
    /\ Attempted = 0
    /\ nCreate = 1
    /\ nStop = 1

\* C10: a listing error is contained.  After a list_namespaces error main
\* holds no namespace; after a list_tables error for a namespace that
\* namespace counts as empty (whatever earlier pages gave) and none of its
\* tables is dispatched; and in every run that was not aborted each
\* namespace listed was either found empty or had tables dispatched.
C10_ListingFailureContained ==
    /\ MainLine("list_namespaces_error") \in log => namespaces = << >>
    /\ \A ns \in NsNames :
          LogLine("list_tables_error", ns, "-") \in log =>
             /\ ns \in emptyNs
             /\ \A k \in Keys : k.database = ns => ~Dispatched(k)
    /\ (pc = "if_not_tables"
          /\ LogLine("list_tables_error", namespace, "-") \in log) =>
          tables = << >>
    /\ (pc = "done" /\ ~Aborted) =>
          \A j \in DOMAIN namespaces :
             \/ namespaces[j] \in emptyNs
             \/ \E k \in Keys : k.database = namespaces[j] /\ Dispatched(k)

\* the listing of ns1 failed, and the run went on to list ns2 and push its
\* table, and ended without a main error
C10_Witness ==
    /\ pc = "done"
    /\ ~Aborted
    /\ namespaces = <<"ns1", "ns2">>
    /\ LogLine("list_tables_error", "ns1", "-") \in log
    /\ Pushed([database |-> "ns2", table |-> "t1"])

\* ------------------------------------------------------------ exit status

\* line 213 was reached: the session and the catalog client both exist
Initialized == MainLine("initialized") \in log

\* C11 as stated: the exit status of the process is a function of
\* initialization only: failure when establishing the session or the
\* catalog client failed, success when both were established.
C11_ExitStatusReflectsInit ==
    exit_status # << >> => ((exit_status[1] = 0) <=> Initialized)

\* ------------------------------------------------ average partition size

\* C12: get_table_metrics on a row with partition_count = 0 returns a dict
\* whose avg_partition_size is 0, whatever the three sums hold (NULL
\* included), and does not fail; on a row with partition_count > 0 and a
\* total_bytes that is not NULL it returns a dict whose avg_partition_size
\* is the quotient total_bytes / partition_count.
C12_AvgPartitionSize ==
    [][\A i \in DOMAIN futures :
          (futures[i].st = "row" /\ futures'[i] # futures[i]) =>
             LET row == futures[i].row
                 avg == futures'[i].metrics.metrics.avg_partition_size IN
             /\ row.partition_count = 0 =>
                   /\ futures'[i].st = "print"
                   /\ avg = PyInt(0)
             /\ (row.partition_count > 0 /\ row.total_bytes # PyNone) =>
                   /\ futures'[i].st = "print"
                   /\ avg.t = "float"
                   /\ avg.d > 0
                   /\ avg.n * row.partition_count = row.total_bytes.n * avg.d]_vars

\* the dict of a table of 2 partitions and 3 bytes: the average is 3/2
C12_Witness ==
    /\ futures # << >>
    /\ futures[1].st = "print"
    /\ futures[1].metrics.metrics.partition_count = PyInt(2)
    /\ futures[1].metrics.metrics.total_bytes = PyInt(3)
    /\ futures[1].metrics.metrics.avg_partition_size.n = 3
    /\ futures[1].metrics.metrics.avg_partition_size.d = 2

\* ------------------------------------------------ namespace normalisation

\* C13: the descriptors "s" and ["s"] both come out of list_namespaces as
\* the name s, in the order read, and a descriptor of several components
\* comes out as its first component; and list_tables asks the catalog for
\* exactly the name main holds for the namespace, a plain string.
C13_NamespaceNormalised ==
    /\ lister.raw # << >> =>
          LET out == IF pc = "list_namespaces" THEN lister.acc ELSE namespaces IN
          /\ Len(out) = Len(lister.raw)
          /\ \A j \in DOMAIN lister.raw :
                /\ \A s \in NsNames :
                      lister.raw[j] \in {NsStr(s), NsList(<<s>>)} => out[j] = s
                /\ (lister.raw[j].list /\ Len(lister.raw[j].parts) > 1) =>
                      out[j] = Head(lister.raw[j].parts)
    /\ pc = "list_tables" =>
          /\ lister.ns = namespaces[nsIdx]
          /\ lister.ns \in NsNames

\* list_namespaces read ["ns1"] and "ns2" and returned ns1, ns2
C13_Witness ==
    /\ pc = "for_namespace"
    /\ lister.raw = <<NsList(<<"ns1">>), NsStr("ns2")>>
    /\ namespaces = <<"ns1", "ns2">>

\* ----------------------------------------- concurrency across namespaces

\* C14 as stated: with two or more workers, tasks of different namespaces
\* run concurrently up to the pool bound, no order being imposed between
\* namespaces: while a worker is idle and namespaces remain, main is not
\* held at the current namespace by its tasks that are still running.
C14_NoOrderBetweenNamespaces ==
    (/\ max_workers >= 2
     /\ pc = "as_completed"
     /\ nsIdx < Len(namespaces)
     /\ NumRunning < max_workers
     /\ \E i \in DOMAIN futures : Running(futures[i])) =>
        ENABLED (ExitPool \/ \E i \in DOMAIN futures : Collect(i))

\* C14 as amended: the work items of a pool all belong to the namespace main
\* is at, and main holds no work item outside the `with` block of that
\* namespace: tasks of different namespaces are never in flight together,
\* whatever the worker count.  Tasks of one namespace do run concurrently.
C14_OneNamespaceAtATime ==
    /\ \A i \in DOMAIN futures :
          /\ nsIdx \in DOMAIN namespaces
          /\ futures[i].database = namespaces[nsIdx]
    /\ pc \notin {"submit", "as_completed", "shutdown"} => futures = << >>
    /\ \A i, j \in DOMAIN futures :
          (Running(futures[i]) /\ Running(futures[j])) =>
             futures[i].database = futures[j].database

\* two workers, two namespaces with tables: the tasks of ns1 have all
\* finished, and both tables of ns2 are in flight at once
C14_Witness ==
    /\ max_workers >= 2
    /\ namespaces = <<"ns1", "ns2">>
    /\ nsIdx = 2
    /\ \E k \in Keys : k.database = "ns1" /\ Dispatched(k)
    /\ Len(futures) = 2
    /\ Running(futures[1]) /\ Running(futures[2])

\* ---------------------------------------------------- bounded concurrency

\* the tables main has listed and not yet had the chance to queue
Queueing(k) ==
    /\ pc \in {"if_not_tables", "submit"}
    /\ k.database = namespaces[nsIdx]

\* with one worker the queue is served in order, one item at a time
OneAtATime ==
    \A i \in DOMAIN futures :
       Running(futures[i]) =>
          /\ \A j \in 1..(i - 1) : futures[j].st = "finished"
          /\ \A j \in (i + 1)..Len(futures) : futures[j].st = "pending"

\* C15 as stated: in every reachable state the executing tasks are at most
\* worker_count, exactly one task is dispatched per listed table, and with
\* one worker tasks execute strictly one at a time.
C15_BoundedOneTaskPerTable ==
    /\ NumRunning <= max_workers
    /\ \A k \in Keys : submitted[k] <= 1
    /\ \A k \in listed : Queueing(k) \/ submitted[k] = 1
    /\ max_workers = 1 => OneAtATime

\* C15 as amended: in every reachable state the executing tasks are at most
\* worker_count; no table is dispatched twice and none that was not listed;
\* every listed table has exactly one task once main has queued its
\* namespace, except the tables of the namespace at which the run was
\* aborted (a worker count of 0, or a submit that raised); and with one
\* worker tasks execute strictly one at a time, in queue order.
C15_BoundedConcurrency ==
    /\ NumRunning <= max_workers
    /\ \A k \in Keys :
          /\ submitted[k] <= 1
          /\ submitted[k] = 1 => k \in listed
    /\ \A k \in listed :
          \/ Queueing(k)
          \/ submitted[k] = 1
          \/ /\ pc = "shutdown" \/ Aborted
             /\ nsIdx \in DOMAIN namespaces
             /\ k.database = namespaces[nsIdx]
    /\ (pc = "done" /\ ~Aborted) => \A k \in listed : submitted[k] = 1
    /\ max_workers = 1 => OneAtATime

\* one worker, two tables queued: the first is executing and the second
\* waits for the worker
C15_Witness ==
    /\ max_workers = 1
    /\ pc = "as_completed"
    /\ Len(futures) = 2
    /\ Running(futures[1])
    /\ futures[2].st = "pending"
    /\ \A k \in listed : submitted[k] = 1

\* ------------------------------------------------------- a failed push

\* C16 as stated: a push error is re-raised to the caller as a publish
\* failure, and retried: by the end of the run a key whose push failed has
\* seen at least one further push attempt.
C16_FailedPushRetried ==
    \A k \in Keys :
       PushFailed(k) =>
          /\ LogLine("process_error", k.database, k.table) \in log
          /\ pc = "done" => pushCount[k] >= 2

\* C16 as amended: a push error is logged by the publisher and re-raised to
\* process_table, which logs it and returns False; the push is not retried:
\* the key of a failed push has seen exactly one push attempt, at every
\* later point of the run, and has no success logged.
C16_FailedPushNotRetried ==
    /\ \A k \in Keys :
          PushFailed(k) =>
             /\ LogLine("push_error", k.database, k.table) \in log
             /\ LogLine("process_error", k.database, k.table) \in log
             /\ pushCount[k] = 1
             /\ ~Pushed(k)
    /\ \A i \in DOMAIN futures :
          PushFailed(KeyOf(i)) =>
             futures[i].st = "finished" /\ futures[i].result = "False"

\* a finished run in which the push of (ns2, t2) failed and was attempted
\* once, while the push of (ns2, t1) went through
C16_Witness ==
    /\ pc = "done"
    /\ PushFailed([database |-> "ns2", table |-> "t2"])
    /\ pushCount[[database |-> "ns2", table |-> "t2"]] = 1
    /\ Pushed([database |-> "ns2", table |-> "t1"])

\* ------------------------- push_metrics_to_prometheus on any metrics dict

\* The metrics dicts of one call for (ns1, t1): each of the five values is
\* an int, a float, None or a string that is not a number, so that any
\* subset of them fails float().
CoerceValues == {PyInt(3), PyFloat(3, 2), PyNone, PyStr}
CoerceMetrics ==
    {[database |-> OneKey.database, table |-> OneKey.table, metrics |-> v] :
       v \in [MetricNames -> CoerceValues]}

NextCoerce ==
    \/ \E m \in CoerceMetrics : pushCount = ZeroCount /\ CallPublish(m)
    \/ \E outcome \in PushOutcomes : Push(1, outcome)

SpecCoerce == InitPublish /\ [][NextCoerce]_vars

\* the samples of gauge g in a group
SamplesOf(group, g) == {s \in group : s.name = g}

ValueFrom(m, s) ==
    \/ s.name = "iceberg_table_info" /\ s.value.n = 1 /\ s.value.d = 1
    \/ \E x \in MetricNames :
          /\ s.name = GaugeOf(x)
          /\ s.value.n = m.metrics[x].n
          /\ s.value.d = m.metrics[x].d

\* C18: registry isolation.  Whatever other tasks are running, the step
\* that ends a task's push leaves every other grouping key's group as it
\* was, and what it puts under the task's own (database, table) holds only
\* series labelled with that (database, table) whose values come from the
\* task's own metrics dict.
C18_RegistryIsolation ==
    [][\A i \in DOMAIN futures :
          (futures[i].st = "push" /\ futures'[i].st = "finished") =>
             LET m == futures[i].metrics
                 k == KeyOf(i) IN
             /\ \A k2 \in Keys \ {k} : gateway'[k2] = gateway[k2]
             /\ \A k2 \in Keys \ {k} : pushCount'[k2] = pushCount[k2]
             /\ \A s \in gateway'[k] :
                   /\ s.database = futures[i].database
                   /\ s.table = futures[i].table
                   /\ ValueFrom(m, s)]_vars

\* two tasks in flight together with different metrics: (ns1, t2) has
\* pushed its own 2 partitions while (ns1, t1), of 0 partitions, is about
\* to push
C18_Witness ==
    /\ max_workers >= 2
    /\ Len(futures) = 2
    /\ futures[1].st = "push"
    /\ futures[1].metrics.metrics.partition_count = PyInt(0)
    /\ futures[2].st = "finished"
    /\ \E s \in gateway[KeyOf(2)] :
          s.name = "iceberg_table_partitions" /\ s.value.n = 2
    /\ gateway[KeyOf(1)] = {}

\* ------------------------------------------------------------ termination

\* The answers of the engine that differ in how the task goes on: a row
\* the metrics dict is built from, and a row on which line 83 raises.
TermRows == {row \in EngineRows : row.partition_count <= 1}

\* the steps of a run, the engine answering with TermRows
NextTerm ==
    \/ \E ok \in BOOLEAN : CreateSession(ok)
    \/ \E ok \in BOOLEAN : InitClient(ok)
    \/ \E more \in BOOLEAN : \E page \in NsPages(lister.acc) :
          ListNamespacesPage(page, more)
    \/ ListNamespacesError
    \/ ForNamespace
    \/ \E more \in BOOLEAN : \E page \in TablePages(lister.acc) :
          ListTablesPage(page, more)
    \/ ListTablesError
    \/ CheckTables
    \/ Submit
    \/ \E queued \in BOOLEAN : SubmitRaises(queued)
    \/ \E i \in DOMAIN futures : StartTask(i)
    \/ \E i \in DOMAIN futures : \E row \in TermRows : QueryReturns(i, row)
    \/ \E i \in DOMAIN futures : QueryRaises(i)
    \/ \E i \in DOMAIN futures : Normalize(i)
    \/ \E i \in DOMAIN futures : Emit(i)
    \/ \E i \in DOMAIN futures : \E outcome \in RunOutcomes : Push(i, outcome)
    \/ \E i \in DOMAIN futures : Collect(i)
    \/ ExitPool
    \/ AbortPool
    \/ Finally

\* Every external call (session, catalog page, query, push) returns or
\* raises, and a thread that can run is scheduled: a step that stays
\* possible is eventually taken.
FairSpec == Init /\ [][NextTerm]_vars /\ WF_vars(NextTerm)

\* every dispatched table has logged its outcome
AllAccounted ==
    \A k \in Keys : Dispatched(k) => Pushed(k) \/ ExtractFailed(k) \/ PushFailed(k)

\* C19: termination.  With a worker count of at least 1, every run
\* eventually ends: main has returned, the interpreter has exited, no work
\* item is left in a pool and every dispatched task has finished.
C19_Terminates ==
    (max_workers >= 1) =>
       <>(pc = "done" /\ exit_status # << >> /\ futures = << >> /\ AllAccounted)

\* a run with two workers that ended after dispatching all four tables
C19_Witness ==
    /\ pc = "done"
    /\ max_workers >= 2
    /\ ~Aborted
    /\ \A k \in Keys : Dispatched(k)
    /\ AllAccounted

====
